---- MODULE Spec2Model ----
(***************************************************************************)
(* Model of src/main.py: a FastAPI application whose lifespan opens the    *)
(* DFHack RPC connection before serving and closes it after, and whose     *)
(* five route handlers await RPC calls and reshape the replies.            *)
(*                                                                         *)
(* The RPC client (dfhack_client_python) and the host (FastAPI / uvicorn)  *)
(* are the environment: an awaited RPC call returns a message, raises, or  *)
(* never returns; the host enters the lifespan once, dispatches requests   *)
(* only between the lifespan's yield and its resumption, resumes it after  *)
(* the in-flight requests have drained, and turns an exception that leaves *)
(* a handler into a 500 response.                                          *)
(***************************************************************************)
EXTENDS Integers, Sequences, FiniteSets, TLC

\* Number of request slots the host serves concurrently.
MaxRequests == 2

Requests == 1..MaxRequests

VARIABLES
    lifespanPc,     \* position of the lifespan coroutine
    lifespanExc,    \* exception that left the lifespan, "none" if none
    connectResult,  \* outcome of connect(): "pending", "ok", "error"
    closeResult,    \* outcome of close():   "pending", "ok", "error"
    connectCalls,   \* number of calls of connect()
    closeCalls,     \* number of calls of close()
    handles,        \* number of open connection handles
    yielded,        \* the lifespan reached its yield (the app became ready)
    pc,             \* per request: "idle", "await", "hung", "done"
    route,          \* per request: the route it was dispatched to
    body,           \* per request: the JSON body of the request
    locals,         \* per request: the handler's local variables
    calls,          \* per request: the RPC calls issued, in order
    reply,          \* per request: the RPC messages received, in order
    failed,         \* per request: the RPC call that raised, "none" if none
    response        \* per request: the HTTP response, once done

lifeVars == <<lifespanPc, lifespanExc, connectResult, closeResult,
              connectCalls, closeCalls, handles, yielded>>
reqVars == <<pc, route, body, locals, calls, reply, failed, response>>
vars == <<lifeVars, reqVars>>

-----------------------------------------------------------------------------
(* JSON values and RPC messages *)

\* The empty JSON object / Python dict {}.
EmptyObject == [k \in {} |-> 0]

\* Ids of units of the simulation.
UnitIds == {1, 2}

\* The unit_ids lists clients post: empty, one id, two ids out of order, a
\* repeated id.
RequestedIdLists == {<<>>, <<1>>, <<2, 1>>, <<1, 1>>}

\* The creature lists the simulation reports, as lists of ids: empty, one
\* creature, two out of order, two alike.
CreatureIdLists == {<<>>, <<2>>, <<2, 1>>, <<1, 1>>}

\* GetWorldInfoOut.Mode.MODE_DWARF, the value line 40 compares with.
MODE_DWARF == 1

\* GetWorldInfoOut.Mode: the enum's values.
Modes == {MODE_DWARF, MODE_DWARF + 1, MODE_DWARF + 2}

\* GetWorldInfoOut.Mode.Name: the enum value's name.
ModeName(mode) ==
    CASE mode = MODE_DWARF     -> "MODE_DWARF"
      [] mode = MODE_DWARF + 1 -> "MODE_ADVENTURE"
      [] mode = MODE_DWARF + 2 -> "MODE_LEGENDS"

\* Messages GetVersion() returns.
GetVersionReplies == {[value |-> "0.8"]}

\* Messages GetDFVersion() returns.
GetDFVersionReplies == {[value |-> "50.11"]}

\* Messages GetWorldInfo() returns: one per mode, the optional ids all set.
GetWorldInfoReplies ==
    {[mode |-> m, civ_id |-> 11, site_id |-> 12, group_id |-> 13, race_id |-> 14,
      world_name |-> [language_id |-> 3, first_name |-> "ushat",
                      last_name |-> "kol", nickname |-> "",
                      english_name |-> "The Realm"]] : m \in Modes}

\* Messages GetViewInfo() returns.
GetViewInfoReplies ==
    {[view_pos_x |-> 1, view_pos_y |-> 2, view_pos_z |-> 3,
      view_size_x |-> 80, view_size_y |-> 25,
      cursor_pos_x |-> c, cursor_pos_y |-> 5, cursor_pos_z |-> 6,
      follow_unit_id |-> 0 - 1, follow_item_id |-> 0 - 1] : c \in {0 - 30000, 4}}

\* The BasicUnitInfo the simulation holds for unit id.
BasicUnitInfo(id) ==
    [unit_id |-> id,
     name |-> [first_name |-> "urist", language_id |-> 3,
               last_name |-> "mengib", english_name |-> "Bridgecut"],
     flags1 |-> 16 * id, flags2 |-> 32 * id, flags3 |-> 64 * id,
     race |-> 572, caste |-> id - 1, gender |-> id - 1, civ_id |-> 11,
     histfig_id |-> 100 + id,
     pos_x |-> 10 + id, pos_y |-> 20 + id, pos_z |-> 30 + id,
     profession |-> 40 + id]

\* The subsequence of id_list whose ids are in alive, in id_list's order.
RECURSIVE Resolve(_, _)
Resolve(id_list, alive) ==
    IF id_list = <<>> THEN <<>>
    ELSE LET rest == Resolve(Tail(id_list), alive)
         IN IF Head(id_list) \in alive
            THEN <<BasicUnitInfo(Head(id_list))>> \o rest
            ELSE rest

\* Messages ListUnits(ListUnitsIn(id_list = id_list)) returns: one unit per
\* requested id the simulation resolves, in the order requested.
ListUnitsReplies(id_list) ==
    {[value |-> Resolve(id_list, alive)] : alive \in SUBSET UnitIds}

\* The UnitDefinition the simulation holds for creature id.
UnitDefinition(id) ==
    [id |-> id, pos_x |-> 10 + id, pos_y |-> 20 + id, pos_z |-> 30 + id,
     is_soldier |-> (id = 1), name |-> "urist",
     appearance |-> [physical_description |-> "stout"],
     profession_id |-> 40 + id, age |-> 50 + id]

\* Messages GetUnitList() returns.
GetUnitListReplies ==
    {[creature_list |-> [i \in DOMAIN ids |-> UnitDefinition(ids[i])]] :
        ids \in CreatureIdLists}

\* The messages an RPC call of `method` returns to request r.
Replies(method, r) ==
    CASE method = "GetVersion"   -> GetVersionReplies
      [] method = "GetDFVersion" -> GetDFVersionReplies
      [] method = "GetWorldInfo" -> GetWorldInfoReplies
      [] method = "GetViewInfo"  -> GetViewInfoReplies
      [] method = "ListUnits"    -> ListUnitsReplies(locals[r].unit_ids)
      [] method = "GetUnitList"  -> GetUnitListReplies

\* JSON bodies posted to /list-units: with a unit_ids list, or without the key.
ListUnitsBodies ==
    {[unit_ids |-> ids] : ids \in RequestedIdLists}
        \cup {EmptyObject, [ids |-> <<1>>]}

-----------------------------------------------------------------------------
(* The handlers' return values *)

\* get_versions, lines 30-33.
get_versions_return(dfhack_version, dwarf_fortress_version) ==
    [dfhackVersion |-> dfhack_version,
     dwarfFortressVersion |-> dwarf_fortress_version]

\* get_world_info without the test of line 40: details always filled in.
get_world_info_return_always_details(world_info) ==
    [worldName |-> [languageId |-> world_info.world_name.language_id,
                    firstName |-> world_info.world_name.first_name,
                    lastName |-> world_info.world_name.last_name,
                    nickname |-> world_info.world_name.nickname,
                    englishName |-> world_info.world_name.english_name],
     mode |-> ModeName(world_info.mode),
     details |-> [civId |-> world_info.civ_id,
                  siteId |-> world_info.site_id,
                  groupId |-> world_info.group_id,
                  raceId |-> world_info.race_id]]

\* get_world_info, lines 39-58.
get_world_info_return(world_info) ==
    LET details ==
            IF world_info.mode = MODE_DWARF
            THEN [civId |-> world_info.civ_id,
                  siteId |-> world_info.site_id,
                  groupId |-> world_info.group_id,
                  raceId |-> world_info.race_id]
            ELSE EmptyObject
    IN [worldName |-> [languageId |-> world_info.world_name.language_id,
                       firstName |-> world_info.world_name.first_name,
                       lastName |-> world_info.world_name.last_name,
                       nickname |-> world_info.world_name.nickname,
                       englishName |-> world_info.world_name.english_name],
        mode |-> ModeName(world_info.mode),
        details |-> details]

\* get_view_info, lines 64-75.
get_view_info_return(view_info) ==
    [view_pos_x |-> view_info.view_pos_x,
     view_pos_y |-> view_info.view_pos_y,
     view_pos_z |-> view_info.view_pos_z,
     view_size_x |-> view_info.view_size_x,
     view_size_y |-> view_info.view_size_y,
     cursor_pos_x |-> view_info.cursor_pos_x,
     cursor_pos_y |-> view_info.cursor_pos_y,
     cursor_pos_z |-> view_info.cursor_pos_z,
     follow_unit_id |-> view_info.follow_unit_id,
     follow_item_id |-> view_info.follow_item_id]

\* list_units with line 86 reading unit.histfig_id instead of unit.unit_id.
list_units_return_wrong_id(units) ==
    LET detail(unit) ==
            [unitId |-> unit.histfig_id,
             name |-> [firstName |-> unit.name.first_name,
                       languageId |-> unit.name.language_id,
                       lastName |-> unit.name.last_name,
                       englishName |-> unit.name.english_name],
             flags1 |-> unit.flags1, flags2 |-> unit.flags2,
             flags3 |-> unit.flags3,
             race |-> unit.race, caste |-> unit.caste, gender |-> unit.gender,
             civId |-> unit.civ_id, histfigId |-> unit.histfig_id,
             position |-> [x |-> unit.pos_x, y |-> unit.pos_y, z |-> unit.pos_z],
             profession |-> unit.profession]
    IN [units |-> [i \in DOMAIN units.value |-> detail(units.value[i])]]

\* list_units, lines 83-108.
list_units_return(units) ==
    LET detail(unit) ==
            [unitId |-> unit.unit_id,
             name |-> [firstName |-> unit.name.first_name,
                       languageId |-> unit.name.language_id,
                       lastName |-> unit.name.last_name,
                       englishName |-> unit.name.english_name],
             flags1 |-> unit.flags1, flags2 |-> unit.flags2,
             flags3 |-> unit.flags3,
             race |-> unit.race, caste |-> unit.caste, gender |-> unit.gender,
             civId |-> unit.civ_id, histfigId |-> unit.histfig_id,
             position |-> [x |-> unit.pos_x, y |-> unit.pos_y, z |-> unit.pos_z],
             profession |-> unit.profession]
    IN [units |-> [i \in DOMAIN units.value |-> detail(units.value[i])]]

\* get_unit_list with line 129 counting the distinct creature ids.
get_unit_list_return_dedup(units) ==
    LET detail(unit) ==
            [id |-> unit.id,
             position |-> [x |-> unit.pos_x, y |-> unit.pos_y, z |-> unit.pos_z],
             isSoldier |-> unit.is_soldier,
             name |-> unit.name,
             physicalDescription |-> unit.appearance.physical_description,
             professionId |-> unit.profession_id,
             age |-> unit.age]
    IN [unitCount |-> Cardinality({units.creature_list[i].id :
                                      i \in DOMAIN units.creature_list}),
        units |-> [i \in DOMAIN units.creature_list |->
                       detail(units.creature_list[i])]]

\* get_unit_list, lines 114-129.
get_unit_list_return(units) ==
    LET detail(unit) ==
            [id |-> unit.id,
             position |-> [x |-> unit.pos_x, y |-> unit.pos_y, z |-> unit.pos_z],
             isSoldier |-> unit.is_soldier,
             name |-> unit.name,
             physicalDescription |-> unit.appearance.physical_description,
             professionId |-> unit.profession_id,
             age |-> unit.age]
    IN [unitCount |-> Len(units.creature_list),
        units |-> [i \in DOMAIN units.creature_list |->
                       detail(units.creature_list[i])]]

-----------------------------------------------------------------------------
(* The lifespan, lines 13-19 *)

Init ==
    /\ lifespanPc = "start"
    /\ lifespanExc = "none"
    /\ connectResult = "pending"
    /\ closeResult = "pending"
    /\ connectCalls = 0
    /\ closeCalls = 0
    /\ handles = 0
    /\ yielded = FALSE
    /\ pc = [r \in Requests |-> "idle"]
    /\ route = [r \in Requests |-> "none"]
    /\ body = [r \in Requests |-> EmptyObject]
    /\ locals = [r \in Requests |-> EmptyObject]
    /\ calls = [r \in Requests |-> <<>>]
    /\ reply = [r \in Requests |-> <<>>]
    /\ failed = [r \in Requests |-> "none"]
    /\ response = [r \in Requests |-> EmptyObject]

\* The lifespan with line 16 missing its await: connect() is started and the
\* lifespan yields at once, before the connection is open.
lifespan_connect_not_awaited ==
    /\ lifespanPc = "start"
    /\ lifespanPc' = "yield"
    /\ connectCalls' = connectCalls + 1
    /\ yielded' = TRUE
    /\ UNCHANGED <<lifespanExc, connectResult, closeResult, closeCalls,
                   handles, reqVars>>

\* The host enters the lifespan at startup: `await connect()` is called.
lifespan_connect ==
    /\ lifespanPc = "start"
    /\ lifespanPc' = "connect"
    /\ connectCalls' = connectCalls + 1
    /\ UNCHANGED <<lifespanExc, connectResult, closeResult, closeCalls,
                   handles, yielded, reqVars>>

\* connect() returns with the connection open; the lifespan yields and the
\* host starts serving.
lifespan_yield ==
    /\ lifespanPc = "connect"
    /\ connectResult' = "ok"
    /\ handles' = handles + 1
    /\ lifespanPc' = "yield"
    /\ yielded' = TRUE
    /\ UNCHANGED <<lifespanExc, closeResult, connectCalls, closeCalls, reqVars>>

\* The lifespan with line 16 in a try/except that swallows the failure: the
\* lifespan yields without a connection.
lifespan_connect_raises_swallowed ==
    /\ lifespanPc = "connect"
    /\ connectResult' = "error"
    /\ lifespanPc' = "yield"
    /\ yielded' = TRUE
    /\ UNCHANGED <<lifespanExc, closeResult, connectCalls, closeCalls, handles,
                   reqVars>>

\* connect() raises (the game is unreachable): nothing catches it, the
\* exception leaves the lifespan before the yield.
lifespan_connect_raises ==
    /\ lifespanPc = "connect"
    /\ connectResult' = "error"
    /\ lifespanPc' = "raised"
    /\ lifespanExc' = "connect"
    /\ UNCHANGED <<closeResult, connectCalls, closeCalls, handles, yielded,
                   reqVars>>

\* Normal shutdown: the host has stopped dispatching and the requests in
\* flight have drained; it resumes the lifespan after the yield, which calls
\* `await close()`.
lifespan_close ==
    /\ lifespanPc = "yield"
    /\ \A r \in Requests : pc[r] \in {"idle", "done"}
    /\ lifespanPc' = "close"
    /\ closeCalls' = closeCalls + 1
    /\ UNCHANGED <<lifespanExc, connectResult, closeResult, connectCalls,
                   handles, yielded, reqVars>>

\* close() returns; the lifespan runs off its end.
lifespan_exit ==
    /\ lifespanPc = "close"
    /\ closeResult' = "ok"
    /\ handles' = handles - 1
    /\ lifespanPc' = "exited"
    /\ UNCHANGED <<lifespanExc, connectResult, connectCalls, closeCalls,
                   yielded, reqVars>>

\* close() raises: nothing catches or logs it, the exception leaves the
\* lifespan.  Whether the handle was torn down is the library's affair.
lifespan_close_raises ==
    /\ lifespanPc = "close"
    /\ closeResult' = "error"
    /\ handles' \in {handles, handles - 1}
    /\ lifespanPc' = "raised"
    /\ lifespanExc' = "close"
    /\ UNCHANGED <<connectResult, connectCalls, closeCalls, yielded, reqVars>>

\* Abnormal shutdown: the host throws an exception into the lifespan at the
\* yield.  The yield is in no try/finally, so the exception leaves the
\* lifespan and line 19 is never reached.
lifespan_throw ==
    /\ lifespanPc = "yield"
    /\ lifespanPc' = "raised"
    /\ lifespanExc' = "thrown"
    /\ UNCHANGED <<connectResult, closeResult, connectCalls, closeCalls,
                   handles, yielded, reqVars>>

-----------------------------------------------------------------------------
(* The route handlers, lines 25-129 *)

\* The host dispatches requests while the lifespan is suspended at its yield.
Serving == lifespanPc = "yield"

Last(s) == s[Len(s)]

\* The response the host sends when an exception leaves a handler.
InternalServerError == [status |-> 500, body |-> EmptyObject]

\* `await <method>(...)`: the handler issues the RPC call and is suspended.
Await(r, method) ==
    /\ calls' = [calls EXCEPT ![r] = Append(@, method)]
    /\ pc' = [pc EXCEPT ![r] = "await"]

\* The handlers with their RPC calls serialised in request order: a request
\* is resumed only when no earlier request is waiting for its own call.
ResumableInTurn(r, method) ==
    /\ Serving
    /\ pc[r] = "await"
    /\ Last(calls[r]) = method
    /\ \A q \in Requests : q < r => pc[q] \notin {"await", "hung"}

\* The coroutine of request r is resumed as soon as the RPC call it awaits
\* completes, whatever the other requests are doing.
Resumable(r, method) ==
    /\ Serving
    /\ pc[r] = "await"
    /\ Last(calls[r]) = method

\* `return <json>`: the host sends it as a 200 response.
Return(r, json) ==
    /\ pc' = [pc EXCEPT ![r] = "done"]
    /\ response' = [response EXCEPT ![r] = [status |-> 200, body |-> json]]

\* An exception leaves the handler: the host sends a 500 response.
Raise(r) ==
    /\ pc' = [pc EXCEPT ![r] = "done"]
    /\ response' = [response EXCEPT ![r] = InternalServerError]

\* GET /get-versions, line 28: await GetVersion().
get_versions(r) ==
    /\ Serving
    /\ pc[r] = "idle"
    /\ route' = [route EXCEPT ![r] = "get-versions"]
    /\ Await(r, "GetVersion")
    /\ UNCHANGED <<lifeVars, body, locals, reply, failed, response>>

\* Line 28-29: GetVersion() returned; await GetDFVersion().
get_versions_GetVersion(r) ==
    /\ route[r] = "get-versions"
    /\ Resumable(r, "GetVersion")
    /\ \E m \in Replies("GetVersion", r) :
        /\ reply' = [reply EXCEPT ![r] = Append(@, m)]
        /\ locals' = [locals EXCEPT ![r] = [dfhack_version |-> m.value]]
    /\ Await(r, "GetDFVersion")
    /\ UNCHANGED <<lifeVars, route, body, failed, response>>

\* Lines 29-33: GetDFVersion() returned; return both versions.
get_versions_GetDFVersion(r) ==
    /\ route[r] = "get-versions"
    /\ Resumable(r, "GetDFVersion")
    /\ \E m \in Replies("GetDFVersion", r) :
        /\ reply' = [reply EXCEPT ![r] = Append(@, m)]
        /\ Return(r, get_versions_return(locals[r].dfhack_version, m.value))
    /\ UNCHANGED <<lifeVars, route, body, locals, calls, failed>>

\* GET /get-world-info, line 38: await GetWorldInfo().
get_world_info(r) ==
    /\ Serving
    /\ pc[r] = "idle"
    /\ route' = [route EXCEPT ![r] = "get-world-info"]
    /\ Await(r, "GetWorldInfo")
    /\ UNCHANGED <<lifeVars, body, locals, reply, failed, response>>

\* Lines 38-58: GetWorldInfo() returned.
get_world_info_GetWorldInfo(r) ==
    /\ route[r] = "get-world-info"
    /\ Resumable(r, "GetWorldInfo")
    /\ \E m \in Replies("GetWorldInfo", r) :
        /\ reply' = [reply EXCEPT ![r] = Append(@, m)]
        /\ Return(r, get_world_info_return(m))
    /\ UNCHANGED <<lifeVars, route, body, locals, calls, failed>>

\* GET /get-view-info, line 63: await GetViewInfo().
get_view_info(r) ==
    /\ Serving
    /\ pc[r] = "idle"
    /\ route' = [route EXCEPT ![r] = "get-view-info"]
    /\ Await(r, "GetViewInfo")
    /\ UNCHANGED <<lifeVars, body, locals, reply, failed, response>>

\* Lines 63-75: GetViewInfo() returned.
get_view_info_GetViewInfo(r) ==
    /\ route[r] = "get-view-info"
    /\ Resumable(r, "GetViewInfo")
    /\ \E m \in Replies("GetViewInfo", r) :
        /\ reply' = [reply EXCEPT ![r] = Append(@, m)]
        /\ Return(r, get_view_info_return(m))
    /\ UNCHANGED <<lifeVars, route, body, locals, calls, failed>>

\* POST /list-units, lines 80-82: subscript the JSON body with "unit_ids"
\* (a KeyError leaves the handler when the key is absent), then
\* await ListUnits(input = ListUnitsIn(id_list = unit_ids)).
list_units(r) ==
    /\ Serving
    /\ pc[r] = "idle"
    /\ route' = [route EXCEPT ![r] = "list-units"]
    /\ \E b \in ListUnitsBodies :
        /\ body' = [body EXCEPT ![r] = b]
        /\ IF "unit_ids" \in DOMAIN b
           THEN /\ locals' = [locals EXCEPT ![r] = [unit_ids |-> b.unit_ids]]
                /\ Await(r, "ListUnits")
                /\ UNCHANGED response
           ELSE /\ Raise(r)
                /\ UNCHANGED <<locals, calls>>
    /\ UNCHANGED <<lifeVars, reply, failed>>

\* Lines 82-108: ListUnits() returned.
list_units_ListUnits(r) ==
    /\ route[r] = "list-units"
    /\ Resumable(r, "ListUnits")
    /\ \E m \in Replies("ListUnits", r) :
        /\ reply' = [reply EXCEPT ![r] = Append(@, m)]
        /\ Return(r, list_units_return(m))
    /\ UNCHANGED <<lifeVars, route, body, locals, calls, failed>>

\* GET /get-unit-list, line 113: await GetUnitList().
get_unit_list(r) ==
    /\ Serving
    /\ pc[r] = "idle"
    /\ route' = [route EXCEPT ![r] = "get-unit-list"]
    /\ Await(r, "GetUnitList")
    /\ UNCHANGED <<lifeVars, body, locals, reply, failed, response>>

\* Lines 113-129: GetUnitList() returned.
get_unit_list_GetUnitList(r) ==
    /\ route[r] = "get-unit-list"
    /\ Resumable(r, "GetUnitList")
    /\ \E m \in Replies("GetUnitList", r) :
        /\ reply' = [reply EXCEPT ![r] = Append(@, m)]
        /\ Return(r, get_unit_list_return(m))
    /\ UNCHANGED <<lifeVars, route, body, locals, calls, failed>>

\* The handlers with a retry around the await: a call that raises is issued
\* again.
rpc_raises_retried(r) ==
    /\ Resumable(r, Last(calls[r]))
    /\ failed' = [failed EXCEPT ![r] = Last(calls[r])]
    /\ Await(r, Last(calls[r]))
    /\ Len(calls[r]) < 3
    /\ UNCHANGED <<lifeVars, route, body, locals, reply, response>>

\* The awaited RPC call raises: no handler has a try/except, so the
\* exception leaves the handler at the await.
rpc_raises(r) ==
    /\ Resumable(r, Last(calls[r]))
    /\ failed' = [failed EXCEPT ![r] = Last(calls[r])]
    /\ Raise(r)
    /\ UNCHANGED <<lifeVars, route, body, locals, calls, reply>>

\* The awaited RPC call never returns: no handler sets a timeout.
rpc_hangs(r) ==
    /\ Serving
    /\ pc[r] = "await"
    /\ pc' = [pc EXCEPT ![r] = "hung"]
    /\ UNCHANGED <<lifeVars, route, body, locals, calls, reply, failed, response>>

\* The client has the response; the request is over.
request_ends(r) ==
    /\ Serving
    /\ pc[r] = "done"
    /\ pc' = [pc EXCEPT ![r] = "idle"]
    /\ route' = [route EXCEPT ![r] = "none"]
    /\ body' = [body EXCEPT ![r] = EmptyObject]
    /\ locals' = [locals EXCEPT ![r] = EmptyObject]
    /\ calls' = [calls EXCEPT ![r] = <<>>]
    /\ reply' = [reply EXCEPT ![r] = <<>>]
    /\ failed' = [failed EXCEPT ![r] = "none"]
    /\ response' = [response EXCEPT ![r] = EmptyObject]
    /\ UNCHANGED lifeVars

Resume(r) ==
    \/ get_versions_GetVersion(r)
    \/ get_versions_GetDFVersion(r)
    \/ get_world_info_GetWorldInfo(r)
    \/ get_view_info_GetViewInfo(r)
    \/ list_units_ListUnits(r)
    \/ get_unit_list_GetUnitList(r)

Next ==
    \/ lifespan_connect
    \/ lifespan_yield
    \/ lifespan_connect_raises
    \/ lifespan_close
    \/ lifespan_exit
    \/ lifespan_close_raises
    \/ lifespan_throw
    \/ \E r \in Requests :
        \/ get_versions(r)
        \/ get_world_info(r)
        \/ get_view_info(r)
        \/ list_units(r)
        \/ get_unit_list(r)
        \/ Resume(r)
        \/ rpc_raises(r)
        \/ rpc_hangs(r)
        \/ request_ends(r)

Spec == Init /\ [][Next]_vars

\* An RPC call that is not hung completes (it returns or raises), and the
\* event loop then resumes the coroutine that awaits it.
FairSpec ==
    /\ Spec
    /\ \A r \in Requests : WF_vars(Resume(r) \/ rpc_raises(r))

-----------------------------------------------------------------------------
(* Properties *)

Range(s) == {s[i] : i \in DOMAIN s}

\* C1: the connection is opened once, at startup before any handler runs,
\* and closed at most once, at shutdown; at most one handle is open at a time;
\* no handler step opens or closes it; and every RPC call a handler issues is
\* issued after connect() has returned and before close() is called, while
\* exactly one handle is open.
C1_OneHandleForAllCalls ==
    [][/\ handles' <= 1
       /\ connectCalls' <= 1
       /\ lifespanPc' # "start" => connectCalls' = 1
       /\ closeCalls' <= 1
       /\ connectCalls' # connectCalls =>
            /\ lifespanPc = "start"
            /\ ~yielded
            /\ \A r \in Requests : pc[r] = "idle" /\ calls[r] = <<>>
       /\ closeCalls' # closeCalls => lifespanPc = "yield" /\ connectResult = "ok"
       /\ (handles' # handles \/ connectCalls' # connectCalls
             \/ closeCalls' # closeCalls) => reqVars' = reqVars
       /\ \A r \in Requests :
            (calls'[r] # calls[r] /\ calls'[r] # <<>>) =>
                /\ connectResult = "ok"
                /\ closeCalls = 0
                /\ handles = 1]_vars

\* C1 witness: the process has shut down normally (connect and close each
\* called once, no handle left) after a handler issued both of its RPC calls.
C1_Witness ==
    /\ lifespanPc = "exited"
    /\ connectCalls = 1 /\ closeCalls = 1 /\ handles = 0
    /\ \E r \in Requests : calls[r] = <<"GetVersion", "GetDFVersion">>

\* C2: a POST /list-units whose body has no unit_ids key ends in a 4xx
\* response, and issues no ListUnits call.
C2_MissingKeyIsClientError ==
    \A r \in Requests :
        (pc[r] = "done" /\ route[r] = "list-units"
            /\ "unit_ids" \notin DOMAIN body[r]) =>
                /\ response[r].status \in 400..499
                /\ "ListUnits" \notin Range(calls[r])

\* C3: once connect() has succeeded, the lifespan never ends, normally or by
\* an exception thrown in at the yield, without close() having been called.
C3_CloseOnEveryStop ==
    (lifespanPc \in {"exited", "raised"} /\ connectResult = "ok") =>
        closeCalls >= 1

\* C4: when close() raises, the lifespan still ends normally: no exception
\* leaves it.
C4_CloseFailureNotEscalated ==
    closeResult = "error" => (lifespanPc = "exited" /\ lifespanExc = "none")

\* C5: when connect() raises, the lifespan ends by that exception without
\* having yielded: no handler has run, no RPC call was issued, close() was
\* not called; and no handler runs before the yield in any case.
C5_NoServiceWithoutConnection ==
    /\ connectResult = "error" =>
        /\ lifespanPc = "raised"
        /\ lifespanExc = "connect"
        /\ ~yielded
        /\ closeCalls = 0
        /\ handles = 0
    /\ ~yielded => \A r \in Requests : pc[r] = "idle" /\ calls[r] = <<>>

\* C5 witness: connect() has raised.
C5_Witness == connectResult = "error" /\ lifespanPc = "raised"

\* The keys of each route's output.
OutputFields(rt) ==
    CASE rt = "get-versions" -> {"dfhackVersion", "dwarfFortressVersion"}
      [] rt = "get-world-info" -> {"worldName", "mode", "details"}
      [] rt = "get-view-info" ->
            {"view_pos_x", "view_pos_y", "view_pos_z", "view_size_x",
             "view_size_y", "cursor_pos_x", "cursor_pos_y", "cursor_pos_z",
             "follow_unit_id", "follow_item_id"}
      [] rt = "list-units" -> {"units"}
      [] rt = "get-unit-list" -> {"unitCount", "units"}

\* C6: a request issues each of its RPC calls at most once; when one of them
\* raises, the response is a 5xx that carries none of the route's output
\* fields, and otherwise a request that issued its calls answers 200 with all
\* of them; a get-versions request whose GetVersion raised never issued
\* GetDFVersion.
C6_AllOrNothing ==
    \A r \in Requests :
        /\ \A i, j \in DOMAIN calls[r] : calls[r][i] = calls[r][j] => i = j
        /\ (pc[r] = "done" /\ failed[r] # "none") =>
            /\ response[r].status \in 500..599
            /\ DOMAIN response[r].body \cap OutputFields(route[r]) = {}
            /\ Last(calls[r]) = failed[r]
            /\ failed[r] = "GetVersion" => "GetDFVersion" \notin Range(calls[r])
        /\ (pc[r] = "done" /\ failed[r] = "none" /\ calls[r] # <<>>) =>
            /\ response[r].status = 200
            /\ DOMAIN response[r].body = OutputFields(route[r])

\* C6 witness: a get-versions request whose GetVersion returned and whose
\* GetDFVersion raised has been answered.
C6_Witness ==
    \E r \in Requests :
        /\ pc[r] = "done"
        /\ route[r] = "get-versions"
        /\ failed[r] = "GetDFVersion"

\* C7: while the process serves, a request that awaits an RPC call is
\* eventually answered unless its own call hangs, whatever the other
\* requests' calls do; and a step of one request changes nothing of any
\* other request.
C7_HungCallBlocksOnlyItsRequest ==
    /\ \A r \in Requests :
        (pc[r] = "await") ~> (pc[r] \in {"done", "hung"} \/ ~Serving)
    /\ [][\A r, q \in Requests :
            (r # q /\ (pc'[r] # pc[r] \/ calls'[r] # calls[r])) =>
                /\ pc'[q] = pc[q] /\ route'[q] = route[q]
                /\ body'[q] = body[q] /\ locals'[q] = locals[q]
                /\ calls'[q] = calls[q] /\ reply'[q] = reply[q]
                /\ failed'[q] = failed[q] /\ response'[q] = response[q]]_vars

\* C7 witness: one request is hung on its RPC call and another, which issued
\* an RPC call, has been answered with its result.
C7_Witness ==
    \E r, q \in Requests :
        /\ r < q
        /\ pc[r] = "hung"
        /\ pc[q] = "done" /\ calls[q] # <<>> /\ response[q].status = 200

\* C8: the get-world-info output has worldName, the name of the reply's mode
\* as mode, and as details the four ids of the reply under the keys civId,
\* siteId, groupId, raceId in dwarf mode and the empty mapping in any other.
C8_WorldInfoDetails ==
    \A r \in Requests :
        (pc[r] = "done" /\ route[r] = "get-world-info" /\ failed[r] = "none") =>
            LET world_info == reply[r][1]
                out == response[r].body
            IN /\ "worldName" \in DOMAIN out
               /\ <<world_info.mode, out.mode>> \in
                    {<<1, "MODE_DWARF">>, <<2, "MODE_ADVENTURE">>,
                     <<3, "MODE_LEGENDS">>}
               /\ IF out.mode = "MODE_DWARF"
                  THEN /\ DOMAIN out.details =
                            {"civId", "siteId", "groupId", "raceId"}
                       /\ out.details.civId = world_info.civ_id
                       /\ out.details.siteId = world_info.site_id
                       /\ out.details.groupId = world_info.group_id
                       /\ out.details.raceId = world_info.race_id
                  ELSE DOMAIN out.details = {}

\* C8 witness: one get-world-info request answered in dwarf mode and another
\* in a different mode.
C8_Witness ==
    \E r, q \in Requests :
        /\ pc[r] = "done" /\ route[r] = "get-world-info" /\ failed[r] = "none"
        /\ reply[r][1].mode = MODE_DWARF
        /\ pc[q] = "done" /\ route[q] = "get-world-info" /\ failed[q] = "none"
        /\ reply[q][1].mode # MODE_DWARF

\* C9: the list-units output has one entry per unit the simulation resolved,
\* at most as many as ids were requested, and every entry's unitId is a
\* requested id.
C9_ListUnitsEntries ==
    \A r \in Requests :
        (pc[r] = "done" /\ route[r] = "list-units"
            /\ "unit_ids" \in DOMAIN body[r] /\ failed[r] = "none") =>
            LET unit_ids == body[r].unit_ids
                resolved == reply[r][1].value
                units == response[r].body.units
            IN /\ Len(units) = Len(resolved)
               /\ Len(units) <= Len(unit_ids)
               /\ \A i \in 1..Len(units) :
                    /\ units[i].unitId \in Range(unit_ids)
                    /\ units[i].unitId = resolved[i].unit_id

\* C9 witness: two different ids were requested and one was resolved.
C9_Witness ==
    \E r \in Requests :
        /\ pc[r] = "done" /\ route[r] = "list-units" /\ failed[r] = "none"
        /\ "unit_ids" \in DOMAIN body[r]
        /\ body[r].unit_ids = <<2, 1>>
        /\ Len(response[r].body.units) = 1

\* C10: the get-unit-list output has unitCount equal to the length of units,
\* and units has one entry per creature of the reply, in the reply's order.
C10_UnitListProjection ==
    \A r \in Requests :
        (pc[r] = "done" /\ route[r] = "get-unit-list" /\ failed[r] = "none") =>
            LET creature_list == reply[r][1].creature_list
                out == response[r].body
            IN /\ out.unitCount = Len(out.units)
               /\ Len(out.units) = Len(creature_list)
               /\ \A i \in 1..Len(creature_list) :
                    out.units[i].id = creature_list[i].id

\* C10 witness: one answer lists a creature twice, another lists two
\* creatures in descending order of id.
C10_Witness ==
    \E r, q \in Requests :
        /\ pc[r] = "done" /\ route[r] = "get-unit-list" /\ failed[r] = "none"
        /\ response[r].body.unitCount = 2
        /\ response[r].body.units[1].id = response[r].body.units[2].id
        /\ pc[q] = "done" /\ route[q] = "get-unit-list" /\ failed[q] = "none"
        /\ response[q].body.unitCount = 2
        /\ response[q].body.units[1].id > response[q].body.units[2].id

====
